---- MODULE Spec2Model ----
(***************************************************************************)
(* Sentence boundary correction of gmutils.                                *)
(*                                                                         *)
(*   nlp.py       combine_with_previous, sentence_segmenter                *)
(*   document.py  Document.combine_with_previous,                          *)
(*                Document.generate_sentences                              *)
(*                                                                         *)
(* A parsed document is a sequence of tokens; a token has a text (a        *)
(* sequence of characters) and a flag telling whether one space follows    *)
(* it (spaCy's whitespace_).  Token indices are 0-based as in the source:  *)
(* token k of the document is doc[k + 1].  Offsets are half-open pairs     *)
(* <<start, end>>.                                                         *)
(***************************************************************************)
EXTENDS Integers, Sequences, FiniteSets

VARIABLES
    doc,              \* the tokens of the parsed document
    sents,            \* list(doc.sents): the raw candidates, <<start, end>> pairs
    pc,               \* position in the function being run
    i,                \* number of candidates the merge loop has processed
    k,                \* number of entries the second loop has processed
    sen_offsets,      \* sen_offsets of the function being run
    final_offsets,    \* sentence_segmenter: final_offsets
    sen_spans,        \* generate_sentences: sen_spans
    need_to_reparse,  \* generate_sentences: need_to_reparse
    checked_docs,     \* generate_sentences: checked_docs
    sentences,        \* Document.sentences
    trees,            \* Document.trees
    spacy_docs,       \* Document.spacy_docs
    parse_calls,      \* texts handed to spacy_nlp, in call order
    verdict,          \* last result of nlp.combine_with_previous
    d_verdict,        \* last result of Document.combine_with_previous
    is_sent_start     \* token.is_sent_start of every token of the document

vars == <<doc, sents, pc, i, k, sen_offsets, final_offsets, sen_spans,
          need_to_reparse, checked_docs, sentences, trees, spacy_docs,
          parse_calls, verdict, d_verdict, is_sent_start>>

(***************************************************************************)
(* Bounds of the model.                                                    *)
(***************************************************************************)
\* most candidates the parser returns for one document
MaxCands == 3
\* most filler tokens inside a span handed directly to the classifiers
MaxFill == 5

(***************************************************************************)
(* Characters, as Python's str methods and the re module class them.       *)
(***************************************************************************)
LowerChars == {"a", "g"}
UpperChars == {"A"}
TermChars == {".", "?", "!"}
SpaceChars == {" ", "\n"}
OtherChars == {")", "(", "\""}
Chars == LowerChars \cup UpperChars \cup TermChars \cup SpaceChars \cup OtherChars

\* str.islower() / str.isupper() of one character
islower(c) == c \in LowerChars
isupper(c) == c \in UpperChars
\* str.isalnum() of one character
isalnum(c) == c \in LowerChars \cup UpperChars
\* the regex class \s
IsSpace(c) == c \in SpaceChars

(***************************************************************************)
(* Tokens and span text.                                                   *)
(***************************************************************************)
\* a token without / with one following space
W(c) == [text |-> <<c>>, ws |-> FALSE]
S(c) == [text |-> <<c>>, ws |-> TRUE]

\* Token.text_with_ws
TextWithWs(tok) == IF tok.ws THEN tok.text \o <<" ">> ELSE tok.text

\* doc[start:end].text: the tokens' text_with_ws joined, without the space
\* that follows the last token
RECURSIVE SpanText(_, _, _)
SpanText(d, start, end) ==
    IF start >= end THEN <<>>
    ELSE IF start = end - 1 THEN d[end].text
    ELSE TextWithWs(d[start + 1]) \o SpanText(d, start + 1, end)

\* the part of a span the classifiers read: its offsets and its text
Span(d, start, end) ==
    [start |-> start, end |-> end, text |-> SpanText(d, start, end)]

(***************************************************************************)
(* Regular expressions of the classifiers.                                 *)
(***************************************************************************)
\* text[1..n] ends with characters of the classes pat[1], pat[2], ...
EndsWith(text, n, pat) ==
    /\ n >= Len(pat)
    /\ \A j \in 1..Len(pat) : text[n - Len(pat) + j] \in pat[j]

\* re.search(pat + "$", text): $ matches at the end of the text and also
\* just before a newline that ends it
SearchAtEnd(pat, text) ==
    \/ EndsWith(text, Len(text), pat)
    \/ /\ Len(text) >= 1
       /\ text[Len(text)] = "\n"
       /\ EndsWith(text, Len(text) - 1, pat)

\* re.search(r"\)", text)
HasCloseParen(text) == \E j \in 1..Len(text) : text[j] = ")"

NonSpaceChars == Chars \ SpaceChars

\* a plausible slip: only non-alphanumeric characters may follow the mark
NonAlnumChars == { c \in NonSpaceChars : ~isalnum(c) }
EndingPunctuation_non_alnum(text) ==
    \/ SearchAtEnd(<<TermChars>>, text)
    \/ SearchAtEnd(<<TermChars, NonAlnumChars>>, text)
    \/ SearchAtEnd(<<TermChars, NonAlnumChars, NonAlnumChars>>, text)
    \/ SearchAtEnd(<<TermChars, SpaceChars>>, text)
    \/ SearchAtEnd(<<TermChars, SpaceChars, SpaceChars>>, text)

\* the five alternatives of "previous sentence had ending punctuation"
EndingPunctuation(text) ==
    \/ SearchAtEnd(<<TermChars>>, text)
    \/ SearchAtEnd(<<TermChars, NonSpaceChars>>, text)
    \/ SearchAtEnd(<<TermChars, NonSpaceChars, NonSpaceChars>>, text)
    \/ SearchAtEnd(<<TermChars, SpaceChars>>, text)
    \/ SearchAtEnd(<<TermChars, SpaceChars, SpaceChars>>, text)

(***************************************************************************)
(* The classifiers.                                                        *)
(***************************************************************************)
\* a plausible slip: rule 3 reads the current span instead of the previous
combine_with_previous_rule3_slip(previous, current) ==
    IF current.end - current.start < 3
       /\ (islower(current.text[1]) \/ HasCloseParen(previous.text))
    THEN TRUE
    ELSE IF current.end - current.start < 7 /\ HasCloseParen(current.text)
    THEN TRUE
    ELSE IF current.end - current.start < 3 /\ isupper(current.text[1])
    THEN TRUE
    ELSE IF ~EndingPunctuation(previous.text)
    THEN TRUE
    ELSE FALSE

\* nlp.combine_with_previous
combine_with_previous(previous, current) ==
    IF current.end - current.start < 3
       /\ (islower(current.text[1]) \/ HasCloseParen(previous.text))
    THEN TRUE
    ELSE IF current.end - current.start < 7 /\ HasCloseParen(current.text)
    THEN TRUE
    ELSE IF previous.end - previous.start < 3 /\ isupper(previous.text[1])
    THEN TRUE
    ELSE IF ~EndingPunctuation(previous.text)
    THEN TRUE
    ELSE FALSE

\* a plausible slip: the short-fragment rule of nlp.py copied into the class
Document_combine_with_previous_nlp_rule1(previous, current) ==
    IF current.end - current.start < 3
       /\ (islower(current.text[1]) \/ HasCloseParen(previous.text))
    THEN TRUE
    ELSE IF ~EndingPunctuation(previous.text)
    THEN TRUE
    ELSE FALSE

\* nlp.combine_with_previous raises IndexError: text[0] of an empty text is
\* read, of the current span by the first rule or of the previous span by
\* the third
combine_with_previous_raises(previous, current) ==
    IF current.end - current.start < 3 /\ current.text = <<>>
    THEN TRUE
    ELSE IF current.end - current.start < 3
            /\ (islower(current.text[1]) \/ HasCloseParen(previous.text))
    THEN FALSE
    ELSE IF current.end - current.start < 7 /\ HasCloseParen(current.text)
    THEN FALSE
    ELSE previous.end - previous.start < 3 /\ previous.text = <<>>

\* a plausible slip: the close-paren rule of nlp.py copied into the class
Document_combine_with_previous_close_paren(previous, current) ==
    IF current.end - current.start < 3
    THEN TRUE
    ELSE IF current.end - current.start < 7 /\ HasCloseParen(current.text)
    THEN TRUE
    ELSE IF ~EndingPunctuation(previous.text)
    THEN TRUE
    ELSE FALSE

\* a plausible slip: the class calls the module-level classifier of nlp.py
Document_combine_with_previous_as_nlp(previous, current) ==
    combine_with_previous(previous, current)

\* Document.combine_with_previous
Document_combine_with_previous(previous, current) ==
    IF current.end - current.start < 3
    THEN TRUE
    ELSE IF ~EndingPunctuation(previous.text)
    THEN TRUE
    ELSE FALSE

\* what the verdict variables record
Recorded(b) == IF b THEN "merge" ELSE "keep"

(***************************************************************************)
(* The parser, as far as the correction layer reads it.                    *)
(***************************************************************************)
\* Doc.text of the whole document: every token's text_with_ws joined
RECURSIVE DocText(_)
DocText(d) == IF d = <<>> THEN <<>> ELSE TextWithWs(Head(d)) \o DocText(Tail(d))

\* spacy_nlp(text): the Doc the n-th call of the parser returns
spacy_nlp(text, n) == [text |-> text, call |-> n]

\* doc[start:end] and doc[:]; a slice that would end before its start is empty
Slice(d, start, end) ==
    [doc |-> d, start |-> start, end |-> IF end < start THEN start ELSE end,
     whole |-> FALSE]
Whole(d) == [doc |-> d, start |-> 0, end |-> 0, whole |-> TRUE]

\* Node(doc, span.root): the tree built over a span of a Doc
Node(d, span) == [doc |-> d, root_of |-> span]

\* a span without tokens: span.root is not defined for it, and reading it
\* either fails or yields a token
EmptySpan(span) == ~span.whole /\ span.end <= span.start

\* position of the first span without tokens, 0 when every span has one
FirstEmpty(spans) ==
    IF \E j \in 1..Len(spans) : EmptySpan(spans[j])
    THEN CHOOSE j \in 1..Len(spans) :
             /\ EmptySpan(spans[j])
             /\ \A h \in 1..(j - 1) : ~EmptySpan(spans[h])
    ELSE 0

\* re.search(r'\S', token.text) finds nothing
WhitespaceOnly(tok) == \A j \in 1..Len(tok.text) : IsSpace(tok.text[j])

(***************************************************************************)
(* Documents the model runs on.  A document is the concatenation of its    *)
(* candidates, so the candidates are sorted, non-empty and contiguous      *)
(* from token 0, as doc.sents of a spaCy Doc are.                          *)
(***************************************************************************)
Heads == { <<>>, <<W(" ")>>, <<W("A")>>, <<S("A"), W("a")>>, <<S("a"), W(")")>> }
Tails == { <<W(".")>>, <<W("a")>>, <<W(" ")>>, <<W("."), W("\n")>> }
Shapes == { h \o t : h \in Heads, t \in Tails }

RECURSIVE Concat(_)
Concat(ss) == IF ss = <<>> THEN <<>> ELSE Head(ss) \o Concat(Tail(ss))

RECURSIVE OffsetsFrom(_, _)
OffsetsFrom(ss, start) ==
    IF ss = <<>> THEN <<>>
    ELSE <<<<start, start + Len(Head(ss))>>>>
         \o OffsetsFrom(Tail(ss), start + Len(Head(ss)))

\* spans handed directly to the classifiers
RECURSIVE Fill(_)
Fill(n) == IF n = 0 THEN <<>> ELSE <<S("a")>> \o Fill(n - 1)

MaxPrevFill == 1
MaxTail == 3
PrevToks == { W("."), S("."), W("g"), W("A"), W(")"), W(" "), W("\n") }
CurHeads == { W("a"), W("A"), W("\"") }
CurEnds == { <<>>, <<W(")")>> }

SeqsUpTo(n, T) == UNION { [1..m -> T] : m \in 1..n }
PrevShapes == { Fill(f) \o t : f \in 0..MaxPrevFill, t \in SeqsUpTo(MaxTail, PrevToks) }
CurShapes == { <<h>> \o Fill(f) \o e : h \in CurHeads, f \in 0..MaxFill, e \in CurEnds }

\* token.is_sent_start as the sentencizer leaves it: True on the first token
\* of every candidate; elsewhere False, or unset where the sentencizer only
\* marks the starts (generate_sentences neither reads nor writes the flag,
\* so one value stands for both there)
SentencizerFlags(d, ss, elsewhere) ==
    [t \in 1..Len(d) |->
        IF \E j \in 1..Len(ss) : ss[j][1] = t - 1 THEN "True" ELSE elsewhere]

(***************************************************************************)
(* Initial states.                                                         *)
(***************************************************************************)
Start(d, ss, at) ==
    /\ doc = d
    /\ sents = ss
    /\ pc = at
    /\ i = 0
    /\ k = 0
    /\ sen_offsets = <<>>
    /\ final_offsets = <<>>
    /\ sen_spans = <<>>
    /\ need_to_reparse = FALSE
    /\ checked_docs = <<>>
    /\ sentences = <<>>
    /\ trees = <<>>
    /\ spacy_docs = IF at = "gen_merge" THEN <<spacy_nlp(DocText(d), 1)>> ELSE <<>>
    /\ parse_calls = IF at = "gen_merge" THEN <<DocText(d)>> ELSE <<>>
    /\ verdict = "none"
    /\ d_verdict = "none"
    /\ \E elsewhere \in (IF at = "gen_merge" THEN {"False"} ELSE {"False", "None"}) :
           is_sent_start = SentencizerFlags(d, ss, elsewhere)

\* sentence_segmenter(doc) is entered, or Document.__init__ has parsed the
\* text and enters generate_sentences
Init ==
    \E n \in 0..MaxCands : \E cs \in [1..n -> Shapes] :
        \E at \in {"seg_merge", "gen_merge"} :
            Start(Concat(cs), OffsetsFrom(cs, 0), at)

\* documents of three properly ended candidates, the middle one a parenthetical
EndedShapes ==
    { <<W(".")>>, <<W("A"), W(".")>>, <<S("A"), W("a"), W(".")>>,
      <<S("A"), S("a"), W("a"), W("?")>> }
ParenShapes ==
    { <<W(")"), W(".")>> }
    \cup { <<W("(")>> \o Fill(f) \o <<W(")"), W(".")>> : f \in 0..MaxFill }

InitParen ==
    \E c1 \in EndedShapes : \E c2 \in ParenShapes : \E c3 \in EndedShapes :
        \E at \in {"seg_merge", "gen_merge"} :
            Start(c1 \o c2 \o c3, OffsetsFrom(<<c1, c2, c3>>, 0), at)

\* list(doc.sents) as a parser is expected to deliver it: sorted, contiguous
\* spans with at least one token each, the first starting at token 0
WellFormed(ss) ==
    /\ \A j \in 1..Len(ss) : ss[j][1] < ss[j][2]
    /\ (ss # <<>> => ss[1][1] = 0)
    /\ \A j \in 1..(Len(ss) - 1) : ss[j][2] = ss[j + 1][1]

\* every other list of spans over the tokens of d
MalformedCands(d) ==
    LET Pairs == { <<a, b>> : a \in 0..Len(d), b \in 0..Len(d) }
        Spans == { p \in Pairs : p[1] <= p[2] }
    IN { ss \in SeqsUpTo(MaxCands, Spans) : ~WellFormed(ss) }

\* the parser hands over a list of candidate spans that is not well formed
InitMalformed ==
    \E d \in Shapes : \E ss \in MalformedCands(d) :
        \E at \in {"seg_merge", "gen_merge"} :
            Start(d, ss, at)

\* one call of each classifier on two adjacent spans
InitClassify ==
    \E p \in PrevShapes : \E c \in CurShapes :
        Start(p \o c, OffsetsFrom(<<p, c>>, 0), "classify")

(***************************************************************************)
(* nlp.sentence_segmenter                                                  *)
(***************************************************************************)
\* a plausible slip: the fold branch of the merge loop left enabled
SegMergeStep_fold_enabled ==
    /\ pc = "seg_merge"
    /\ i < Len(sents)
    /\ LET start == sents[i + 1][1]
           end == sents[i + 1][2]
           current == Span(doc, start, end)
           has_previous == Len(sen_offsets) > 0
           p_start == sen_offsets[Len(sen_offsets)][1]
           p_end == sen_offsets[Len(sen_offsets)][2]
           previous == Span(doc, p_start, p_end)
           combine == has_previous /\ combine_with_previous(previous, current)
       IN /\ verdict' = IF has_previous THEN Recorded(combine) ELSE "none"
          /\ sen_offsets' =
                IF combine
                THEN [sen_offsets EXCEPT ![Len(sen_offsets)] = <<p_start, end>>]
                ELSE Append(sen_offsets, <<start, end>>)
    /\ i' = i + 1
    /\ UNCHANGED <<is_sent_start, doc, sents, pc, k, final_offsets, sen_spans, need_to_reparse,
                   checked_docs, sentences, trees, spacy_docs, parse_calls,
                   d_verdict>>

\* one iteration of the merge loop
SegMergeStep ==
    /\ pc = "seg_merge"
    /\ i < Len(sents)
    /\ LET start == sents[i + 1][1]
           end == sents[i + 1][2]
           current == Span(doc, start, end)
           has_previous == Len(sen_offsets) > 0
           p_start == sen_offsets[Len(sen_offsets)][1]
           p_end == sen_offsets[Len(sen_offsets)][2]
           previous == Span(doc, p_start, p_end)
           combine == has_previous /\ combine_with_previous(previous, current)
       IN IF has_previous /\ combine_with_previous_raises(previous, current)
          THEN /\ pc' = "seg_raised"              \* text[0]: IndexError
               /\ UNCHANGED <<i, verdict, sen_offsets>>
          ELSE /\ verdict' = IF has_previous THEN Recorded(combine) ELSE "none"
               /\ sen_offsets' =
                     IF combine /\ FALSE
                     THEN [sen_offsets EXCEPT ![Len(sen_offsets)] = <<p_start, end>>]
                     ELSE Append(sen_offsets, <<start, end>>)
               /\ i' = i + 1
               /\ pc' = pc
    /\ UNCHANGED <<is_sent_start, doc, sents, k, final_offsets, sen_spans,
                   need_to_reparse, checked_docs, sentences, trees, spacy_docs,
                   parse_calls, d_verdict>>

\* the merge loop is over: final_offsets = []
SegMergeDone ==
    /\ pc = "seg_merge"
    /\ i = Len(sents)
    /\ pc' = "seg_shift"
    /\ k' = 0
    /\ final_offsets' = <<>>
    /\ UNCHANGED <<is_sent_start, doc, sents, i, sen_offsets, sen_spans, need_to_reparse,
                   checked_docs, sentences, trees, spacy_docs, parse_calls,
                   verdict, d_verdict>>

\* a plausible slip: the shift forgets to make the previous sentence longer
SegShiftStep_previous_not_extended ==
    /\ pc = "seg_shift"
    /\ k < Len(sen_offsets)
    /\ LET offsets == sen_offsets[k + 1]
           start == offsets[1]
           end == offsets[2]
       IN IF start > 0 /\ WhitespaceOnly(doc[start + 1])
          THEN final_offsets' = Append(final_offsets, <<start + 1, end>>)
          ELSE final_offsets' = Append(final_offsets, offsets)
    /\ k' = k + 1
    /\ UNCHANGED <<is_sent_start, doc, sents, pc, i, sen_offsets, sen_spans, need_to_reparse,
                   checked_docs, sentences, trees, spacy_docs, parse_calls,
                   verdict, d_verdict>>

\* one iteration of the whitespace shift loop
SegShiftStep ==
    /\ pc = "seg_shift"
    /\ k < Len(sen_offsets)
    /\ LET offsets == sen_offsets[k + 1]
           start == offsets[1]
           end == offsets[2]
           prev_start == final_offsets[Len(final_offsets)][1]
           prev_end == final_offsets[Len(final_offsets)][2]
       IN IF start > 0 /\ start >= Len(doc)
          THEN /\ pc' = "seg_raised"              \* doc[start]: IndexError
               /\ UNCHANGED <<k, final_offsets>>
          ELSE IF start > 0 /\ WhitespaceOnly(doc[start + 1])
          THEN IF final_offsets = <<>>
               THEN /\ pc' = "seg_raised"         \* final_offsets[-1]: IndexError
                    /\ UNCHANGED <<k, final_offsets>>
               ELSE /\ final_offsets' =
                          Append([final_offsets EXCEPT ![Len(final_offsets)] =
                                      <<prev_start, prev_end + 1>>],
                                 <<start + 1, end>>)
                    /\ k' = k + 1
                    /\ pc' = pc
          ELSE /\ final_offsets' = Append(final_offsets, offsets)
               /\ k' = k + 1
               /\ pc' = pc
    /\ UNCHANGED <<is_sent_start, doc, sents, i, sen_offsets, sen_spans, need_to_reparse,
                   checked_docs, sentences, trees, spacy_docs, parse_calls,
                   verdict, d_verdict>>

\* sen_offsets = final_offsets; return sen_offsets
SegReturn ==
    /\ pc = "seg_shift"
    /\ k = Len(sen_offsets)
    /\ sen_offsets' = final_offsets
    /\ pc' = "seg_done"
    /\ UNCHANGED <<is_sent_start, doc, sents, i, k, final_offsets, sen_spans, need_to_reparse,
                   checked_docs, sentences, trees, spacy_docs, parse_calls,
                   verdict, d_verdict>>

(***************************************************************************)
(* nlp.set_sentence_starts, once sentence_segmenter(doc) has returned      *)
(***************************************************************************)
\* a plausible slip: the loop runs over doc instead of doc[:-1]
SetSentenceStarts_all_tokens ==
    /\ pc = "seg_done"
    /\ LET starts == { sen_offsets[j][1] : j \in 1..Len(sen_offsets) }
       IN is_sent_start' =
             [t \in 1..Len(doc) |-> IF t - 1 \in starts THEN "True" ELSE "None"]
    /\ pc' = "starts_set"
    /\ UNCHANGED <<doc, sents, i, k, sen_offsets, final_offsets, sen_spans,
                   need_to_reparse, checked_docs, sentences, trees, spacy_docs,
                   parse_calls, verdict, d_verdict>>

\* the starts are collected and every token of doc[:-1] is flagged
SetSentenceStarts ==
    /\ pc = "seg_done"
    /\ LET starts == { sen_offsets[j][1] : j \in 1..Len(sen_offsets) }
       IN is_sent_start' =
             [t \in 1..Len(doc) |->
                 IF t < Len(doc)
                 THEN IF t - 1 \in starts THEN "True" ELSE "None"
                 ELSE is_sent_start[t]]
    /\ pc' = "starts_set"
    /\ UNCHANGED <<doc, sents, i, k, sen_offsets, final_offsets, sen_spans,
                   need_to_reparse, checked_docs, sentences, trees, spacy_docs,
                   parse_calls, verdict, d_verdict>>

(***************************************************************************)
(* Document.generate_sentences                                             *)
(***************************************************************************)
\* the Doc of self.spacy_docs the loop runs over
TheDoc == spacy_docs[1]

\* a plausible slip: the folded span is cut from the raw previous candidate
GenMergeStep_span_from_previous ==
    /\ pc = "gen_merge"
    /\ i < Len(sents)
    /\ LET start == sents[i + 1][1]
           end == sents[i + 1][2]
           current == Span(doc, start, end)
           has_previous == i > 0
           p_start == sents[i][1]
           p_end == sents[i][2]
           previous == Span(doc, p_start, p_end)
           combine == has_previous /\ Document_combine_with_previous(previous, current)
           last == Len(sen_offsets)
       IN /\ d_verdict' = IF has_previous THEN Recorded(combine) ELSE "none"
          /\ IF combine
             THEN /\ need_to_reparse' = TRUE
                  /\ sen_spans' = [sen_spans EXCEPT ![Len(sen_spans)] =
                                      Slice(TheDoc, p_start, end)]
                  /\ sen_offsets' = [sen_offsets EXCEPT ![last] = <<sen_offsets[last][1], end>>]
             ELSE /\ need_to_reparse' = need_to_reparse
                  /\ sen_offsets' = Append(sen_offsets, <<start, end>>)
                  /\ sen_spans' = Append(sen_spans, Slice(TheDoc, start, end))
    /\ i' = i + 1
    /\ UNCHANGED <<is_sent_start, doc, sents, pc, k, final_offsets, checked_docs, sentences,
                   trees, spacy_docs, parse_calls, verdict>>

\* a plausible slip: need_to_reparse is set for every candidate after the first
GenMergeStep_always_reparse ==
    /\ pc = "gen_merge"
    /\ i < Len(sents)
    /\ LET start == sents[i + 1][1]
           end == sents[i + 1][2]
           current == Span(doc, start, end)
           has_previous == i > 0
           p_start == sents[i][1]
           p_end == sents[i][2]
           previous == Span(doc, p_start, p_end)
           combine == has_previous /\ Document_combine_with_previous(previous, current)
           last == Len(sen_offsets)
       IN /\ d_verdict' = IF has_previous THEN Recorded(combine) ELSE "none"
          /\ IF combine
             THEN /\ need_to_reparse' = TRUE
                  /\ sen_spans' = [sen_spans EXCEPT ![Len(sen_spans)] =
                                      Slice(TheDoc, sen_offsets[last][1], end)]
                  /\ sen_offsets' = [sen_offsets EXCEPT ![last] = <<sen_offsets[last][1], end>>]
             ELSE /\ need_to_reparse' = has_previous
                  /\ sen_offsets' = Append(sen_offsets, <<start, end>>)
                  /\ sen_spans' = Append(sen_spans, Slice(TheDoc, start, end))
    /\ i' = i + 1
    /\ UNCHANGED <<is_sent_start, doc, sents, pc, k, final_offsets, checked_docs, sentences,
                   trees, spacy_docs, parse_calls, verdict>>

\* a plausible slip: the fold branch disabled as in nlp.sentence_segmenter
GenMergeStep_never_folds ==
    /\ pc = "gen_merge"
    /\ i < Len(sents)
    /\ LET start == sents[i + 1][1]
           end == sents[i + 1][2]
           current == Span(doc, start, end)
           has_previous == i > 0
           p_start == sents[i][1]
           p_end == sents[i][2]
           previous == Span(doc, p_start, p_end)
           combine == has_previous /\ Document_combine_with_previous(previous, current)
           last == Len(sen_offsets)
       IN /\ d_verdict' = IF has_previous THEN Recorded(combine) ELSE "none"
          /\ IF combine /\ FALSE
             THEN /\ need_to_reparse' = TRUE
                  /\ sen_spans' = [sen_spans EXCEPT ![Len(sen_spans)] =
                                      Slice(TheDoc, sen_offsets[last][1], end)]
                  /\ sen_offsets' = [sen_offsets EXCEPT ![last] = <<sen_offsets[last][1], end>>]
             ELSE /\ need_to_reparse' = need_to_reparse
                  /\ sen_offsets' = Append(sen_offsets, <<start, end>>)
                  /\ sen_spans' = Append(sen_spans, Slice(TheDoc, start, end))
    /\ i' = i + 1
    /\ UNCHANGED <<is_sent_start, doc, sents, pc, k, final_offsets, checked_docs, sentences,
                   trees, spacy_docs, parse_calls, verdict>>

\* one iteration of the merge loop
GenMergeStep ==
    /\ pc = "gen_merge"
    /\ i < Len(sents)
    /\ LET start == sents[i + 1][1]
           end == sents[i + 1][2]
           current == Span(doc, start, end)
           has_previous == i > 0
           p_start == sents[i][1]
           p_end == sents[i][2]
           previous == Span(doc, p_start, p_end)
           combine == has_previous /\ Document_combine_with_previous(previous, current)
           last == Len(sen_offsets)
       IN /\ d_verdict' = IF has_previous THEN Recorded(combine) ELSE "none"
          /\ IF combine
             THEN /\ need_to_reparse' = TRUE
                  /\ sen_spans' = [sen_spans EXCEPT ![Len(sen_spans)] =
                                      Slice(TheDoc, sen_offsets[last][1], end)]
                  /\ sen_offsets' = [sen_offsets EXCEPT ![last] = <<sen_offsets[last][1], end>>]
             ELSE /\ need_to_reparse' = need_to_reparse
                  /\ sen_offsets' = Append(sen_offsets, <<start, end>>)
                  /\ sen_spans' = Append(sen_spans, Slice(TheDoc, start, end))
    /\ i' = i + 1
    /\ UNCHANGED <<is_sent_start, doc, sents, pc, k, final_offsets, checked_docs, sentences,
                   trees, spacy_docs, parse_calls, verdict>>

\* the merge loop is over and need_to_reparse is set: the reparse loop starts
GenMergeDone ==
    /\ pc = "gen_merge"
    /\ i = Len(sents)
    /\ need_to_reparse
    /\ pc' = "gen_reparse"
    /\ k' = 0
    /\ UNCHANGED <<is_sent_start, doc, sents, i, sen_offsets, final_offsets, sen_spans,
                   need_to_reparse, checked_docs, sentences, trees, spacy_docs,
                   parse_calls, verdict, d_verdict>>

\* a plausible slip: the span of the first parse is kept as the sentence
GenReparseStep_keeps_span ==
    /\ pc = "gen_reparse"
    /\ k < Len(sen_spans)
    /\ LET span == sen_spans[k + 1]
           text == SpanText(doc, span.start, span.end)
           doc2 == spacy_nlp(text, Len(parse_calls) + 1)
       IN /\ parse_calls' = Append(parse_calls, text)
          /\ checked_docs' = Append(checked_docs, doc2)
          /\ sentences' = Append(sentences, span)
          /\ trees' = Append(trees, Node(doc2, span))
    /\ k' = k + 1
    /\ UNCHANGED <<is_sent_start, doc, sents, pc, i, sen_offsets, final_offsets, sen_spans,
                   need_to_reparse, spacy_docs, verdict, d_verdict>>

\* one iteration of the reparse loop
GenReparseStep ==
    /\ pc = "gen_reparse"
    /\ k < Len(sen_spans)
    /\ LET span == sen_spans[k + 1]
           text == SpanText(doc, span.start, span.end)
           doc2 == spacy_nlp(text, Len(parse_calls) + 1)
           span2 == Whole(doc2)
       IN /\ parse_calls' = Append(parse_calls, text)
          /\ checked_docs' = Append(checked_docs, doc2)
          /\ sentences' = Append(sentences, span2)
          /\ \/ /\ trees' = Append(trees, Node(doc2, span2))
                /\ k' = k + 1
                /\ pc' = pc
             \/ /\ EmptySpan(span)                \* span2.root of an empty span
                /\ pc' = "gen_raised"
                /\ UNCHANGED <<k, trees>>
    /\ UNCHANGED <<is_sent_start, doc, sents, i, sen_offsets, final_offsets, sen_spans,
                   need_to_reparse, spacy_docs, verdict, d_verdict>>

\* the reparse loop is over: self.spacy_docs = checked_docs
GenReparseDone ==
    /\ pc = "gen_reparse"
    /\ k = Len(sen_spans)
    /\ spacy_docs' = checked_docs
    /\ pc' = "gen_done"
    /\ UNCHANGED <<is_sent_start, doc, sents, i, k, sen_offsets, final_offsets, sen_spans,
                   need_to_reparse, checked_docs, sentences, trees, parse_calls,
                   verdict, d_verdict>>

RECURSIVE NodesOf(_, _)
NodesOf(d, spans) ==
    IF spans = <<>> THEN <<>>
    ELSE <<Node(d, Head(spans))>> \o NodesOf(d, Tail(spans))

\* the merge loop is over and nothing was folded: the spans are kept as parsed
\* and self.spacy_docs = checked_docs
GenKeep ==
    /\ pc = "gen_merge"
    /\ i = Len(sents)
    /\ ~need_to_reparse
    /\ checked_docs' = Append(checked_docs, TheDoc)
    /\ \/ /\ sentences' = sentences \o sen_spans
          /\ trees' = trees \o NodesOf(TheDoc, sen_spans)
          /\ spacy_docs' = Append(checked_docs, TheDoc)
          /\ pc' = "gen_done"
       \/ LET e == FirstEmpty(sen_spans)         \* span.root of an empty span
          IN /\ e > 0
             /\ sentences' = sentences \o SubSeq(sen_spans, 1, e)
             /\ trees' = trees \o NodesOf(TheDoc, SubSeq(sen_spans, 1, e - 1))
             /\ pc' = "gen_raised"
             /\ UNCHANGED spacy_docs
    /\ UNCHANGED <<is_sent_start, doc, sents, i, k, sen_offsets, final_offsets, sen_spans,
                   need_to_reparse, parse_calls, verdict, d_verdict>>

(***************************************************************************)
(* One call of each classifier on the two spans of a two-candidate doc.    *)
(***************************************************************************)
Classify ==
    /\ pc = "classify"
    /\ LET previous == Span(doc, sents[1][1], sents[1][2])
           current == Span(doc, sents[2][1], sents[2][2])
       IN /\ verdict' = Recorded(combine_with_previous(previous, current))
          /\ d_verdict' = Recorded(Document_combine_with_previous(previous, current))
    /\ pc' = "classified"
    /\ UNCHANGED <<is_sent_start, doc, sents, i, k, sen_offsets, final_offsets, sen_spans,
                   need_to_reparse, checked_docs, sentences, trees, spacy_docs,
                   parse_calls>>

(***************************************************************************)
(* Specifications.                                                         *)
(***************************************************************************)
Next ==
    \/ SegMergeStep
    \/ SegMergeDone
    \/ SegShiftStep
    \/ SegReturn
    \/ SetSentenceStarts
    \/ GenMergeStep
    \/ GenMergeDone
    \/ GenReparseStep
    \/ GenReparseDone
    \/ GenKeep

Spec == Init /\ [][Next]_vars

SpecClassify == InitClassify /\ [][Classify]_vars

SpecParen == InitParen /\ [][Next]_vars
SpecMalformed == InitMalformed /\ [][Next]_vars

(***************************************************************************)
(* Properties of nlp.sentence_segmenter.                                   *)
(***************************************************************************)
\* offs covers tokens [0, n) in order, each span ending where the next starts
CoversInOrder(offs, n) ==
    /\ offs # <<>>
    /\ offs[1][1] = 0
    /\ offs[Len(offs)][2] = n
    /\ \A j \in 1..Len(offs) : offs[j][1] <= offs[j][2]
    /\ \A j \in 1..(Len(offs) - 1) : offs[j][2] = offs[j + 1][1]

\* the shift pass moved at least one boundary
SomeShift == \E j \in 1..Len(sents) : sen_offsets[j] # sents[j]

\* C1: for a document with at least one candidate, the offsets the merge loop
\* leaves and the offsets sentence_segmenter returns after the shift pass
\* start at 0, end at the number of tokens, are in document order and each
\* span ends where the next one starts.
C1_SegmenterPartition ==
    (sents # <<>>) =>
        /\ (pc = "seg_shift" => CoversInOrder(sen_offsets, Len(doc)))
        /\ (pc = "seg_done" => CoversInOrder(sen_offsets, Len(doc)))

\* C1 witness: a returned list of three spans in which a boundary was shifted
C1_Witness ==
    /\ pc = "seg_done"
    /\ Len(sen_offsets) = 3
    /\ SomeShift

\* C2: every span sentence_segmenter returns is non-empty, a shift that would
\* empty a span being skipped.
C2_ReturnedSpansNonEmpty ==
    pc = "seg_done" =>
        \A j \in 1..Len(sen_offsets) : sen_offsets[j][1] < sen_offsets[j][2]

\* C3 as claimed: in the merge loop of sentence_segmenter a candidate the
\* classifier says to combine extends the last span and adds no entry, and
\* any other candidate is appended.
C3_FoldsWhenClassifierCombines ==
    [][(pc = "seg_merge" /\ i' = i + 1) =>
          IF verdict' = "merge"
          THEN /\ Len(sen_offsets') = Len(sen_offsets)
               /\ sen_offsets'[Len(sen_offsets)] =
                     <<sen_offsets[Len(sen_offsets)][1], sents[i + 1][2]>>
          ELSE sen_offsets' = Append(sen_offsets, sents[i + 1])]_vars

\* C3 amended: the merge loop of sentence_segmenter appends every candidate
\* as a new entry whatever the classifier returned, so the spans before the
\* shift pass are exactly the candidates.
C3_SegmenterNeverFolds ==
    /\ (pc = "seg_merge" => sen_offsets = SubSeq(sents, 1, i))
    /\ (pc = "seg_shift" => sen_offsets = sents)

\* C3 witness: the classifier said combine and the candidate was appended
C3_Witness ==
    /\ pc = "seg_merge"
    /\ verdict = "merge"
    /\ i >= 2
    /\ Len(sen_offsets) = i

(***************************************************************************)
(* Properties of Document.generate_sentences.                              *)
(***************************************************************************)
\* C4: at every iteration of the merge loop of generate_sentences the spans
\* of sen_offsets are non-empty and in order, start at the first candidate's
\* start, end at the end of the candidate just processed, each ends where
\* the next starts, and sen_spans[j] is the slice doc[sen_offsets[j]].
C4_AccumulatorIsPartition ==
    (pc = "gen_merge" /\ i >= 1) =>
        /\ sen_offsets # <<>>
        /\ Len(sen_spans) = Len(sen_offsets)
        /\ sen_offsets[1][1] = sents[1][1]
        /\ sen_offsets[Len(sen_offsets)][2] = sents[i][2]
        /\ \A j \in 1..Len(sen_offsets) :
              /\ sen_offsets[j][1] < sen_offsets[j][2]
              /\ sen_spans[j] = Slice(TheDoc, sen_offsets[j][1], sen_offsets[j][2])
        /\ \A j \in 1..(Len(sen_offsets) - 1) :
              sen_offsets[j][2] = sen_offsets[j + 1][1]

\* C4 witness: three candidates processed, the first two folded into one span
\* and the third appended
C4_Witness ==
    /\ pc = "gen_merge"
    /\ i = 3
    /\ sen_offsets = <<<<sents[1][1], sents[2][2]>>, sents[3]>>

\* the finalized spans' texts, in order
RECURSIVE TextsOf(_, _)
TextsOf(d, offs) ==
    IF offs = <<>> THEN <<>>
    ELSE <<SpanText(d, Head(offs)[1], Head(offs)[2])>> \o TextsOf(d, Tail(offs))

\* at least one candidate was folded / none was
SomeFold == Len(sen_offsets) < Len(sents)
NoFold == Len(sen_offsets) = Len(sents)

\* C8: when at least one fold occurred, generate_sentences calls the parser
\* once per finalized span, on the span's text, in document order; the
\* Document ends with one Sentence and one Tree per finalized span, each
\* Sentence the whole of its reparsed Doc, and spacy_docs holds those
\* reparsed Docs and nothing else.
C8_ReparseEveryFinalSpan ==
    (pc = "gen_done" /\ SomeFold) =>
        /\ parse_calls = <<DocText(doc)>> \o TextsOf(doc, sen_offsets)
        /\ Len(sentences) = Len(sen_offsets)
        /\ Len(trees) = Len(sen_offsets)
        /\ Len(spacy_docs) = Len(sen_offsets)
        /\ \A j \in 1..Len(sen_offsets) :
              LET doc2 == spacy_nlp(SpanText(doc, sen_offsets[j][1], sen_offsets[j][2]), j + 1)
              IN /\ spacy_docs[j] = doc2
                 /\ sentences[j] = Whole(doc2)
                 /\ trees[j] = Node(doc2, Whole(doc2))

\* C8 witness: a document of three candidates ends with two reparsed spans
C8_Witness ==
    /\ pc = "gen_done"
    /\ Len(sents) = 3
    /\ Len(sen_offsets) = 2
    /\ Len(parse_calls) = 3

\* C9: when no fold occurred, generate_sentences does not call the parser
\* again, spacy_docs holds the original Doc alone, and the Sentences are the
\* candidates' slices of the original Doc, one per candidate, in order.
C9_NoFoldKeepsOriginalParse ==
    (pc = "gen_done" /\ NoFold) =>
        /\ parse_calls = <<DocText(doc)>>
        /\ spacy_docs = <<spacy_nlp(DocText(doc), 1)>>
        /\ Len(sentences) = Len(sents)
        /\ Len(trees) = Len(sents)
        /\ \A j \in 1..Len(sents) :
              LET span == Slice(spacy_nlp(DocText(doc), 1), sents[j][1], sents[j][2])
              IN /\ sentences[j] = span
                 /\ trees[j] = Node(spacy_nlp(DocText(doc), 1), span)

\* C9 witness: a document of three candidates, none folded, is finished
C9_Witness ==
    /\ pc = "gen_done"
    /\ Len(sents) = 3
    /\ Len(sen_offsets) = 3
    /\ Len(sentences) = 3

\* the merge loop of generate_sentences is over
GenMerged == (pc = "gen_merge" /\ i = Len(sents)) \/ pc \in {"gen_reparse", "gen_done"}

\* C10 as claimed: in the finalized span list of the merger neither merge
\* classifier says combine for two spans that are not adjacent.
C10_NoClassifierCombinesNonAdjacent ==
    GenMerged =>
        \A a, b \in 1..Len(sen_offsets) :
            b > a + 1 =>
                LET previous == Span(doc, sen_offsets[a][1], sen_offsets[a][2])
                    current == Span(doc, sen_offsets[b][1], sen_offsets[b][2])
                IN /\ ~Document_combine_with_previous(previous, current)
                   /\ ~combine_with_previous(previous, current)

\* C10 amended: in the finalized span list of generate_sentences,
\* Document.combine_with_previous does not say combine for two spans that
\* are not adjacent.
C10_DocumentClassifierLocal ==
    GenMerged =>
        \A a, b \in 1..Len(sen_offsets) :
            b > a + 1 =>
                ~Document_combine_with_previous(
                    Span(doc, sen_offsets[a][1], sen_offsets[a][2]),
                    Span(doc, sen_offsets[b][1], sen_offsets[b][2]))

\* C10 witness: generate_sentences finished with three finalized spans
C10_Witness ==
    /\ pc = "gen_done"
    /\ Len(sen_offsets) = 3

(***************************************************************************)
(* Properties of the classifiers.                                          *)
(***************************************************************************)
PrevText == SpanText(doc, sents[1][1], sents[1][2])
PrevCount == sents[1][2] - sents[1][1]
CurText == SpanText(doc, sents[2][1], sents[2][2])
CurCount == sents[2][2] - sents[2][1]

Rule1 == CurCount < 3 /\ (CurText[1] \in LowerChars \/ ")" \in {PrevText[j] : j \in 1..Len(PrevText)})
Rule2 == CurCount < 7 /\ ")" \in {CurText[j] : j \in 1..Len(CurText)}
Rule3 == PrevCount < 3 /\ PrevText[1] \in UpperChars
Rule4 == ~EndingPunctuation(PrevText)

\* C5: nlp.combine_with_previous returns true exactly when one of the four
\* rules holds of the two spans' texts and token counts, the test for ending
\* punctuation taken as given.
C5_ClassifierIsDisjunctionOfRules ==
    pc = "classified" =>
        /\ verdict \in {"merge", "keep"}
        /\ (verdict = "merge") <=> (Rule1 \/ Rule2 \/ Rule3 \/ Rule4)

\* C5 witness: the classifier said combine on account of rule 3 alone
C5_Witness ==
    /\ pc = "classified"
    /\ verdict = "merge"
    /\ Rule3 /\ ~Rule1 /\ ~Rule2 /\ ~Rule4

\* the case C6 is about: a short capitalized current span after a previous
\* span of at least 3 tokens without ')' that ends in '.', '?' or '!'
C6_Case ==
    /\ CurCount < 3
    /\ CurText[1] \in UpperChars
    /\ PrevCount >= 3
    /\ ")" \notin {PrevText[j] : j \in 1..Len(PrevText)}
    /\ PrevText[Len(PrevText)] \in TermChars

\* C6 as claimed: Document.combine_with_previous returns false for a short
\* capitalized current span after a long, properly ended previous span
\* without ')'.
C6_ShortCapitalizedKept ==
    (pc = "classified" /\ C6_Case) => d_verdict = "keep"

\* C6 amended: Document.combine_with_previous returns true for every current
\* span of fewer than 3 tokens, whatever its first character and whatever
\* the previous span.
C6_ShortCurrentAlwaysCombined ==
    (pc = "classified" /\ CurCount < 3) => d_verdict = "merge"

\* C6 witness: the case of the claim, combined
C6_Witness ==
    /\ pc = "classified"
    /\ C6_Case
    /\ d_verdict = "merge"

\* the last n characters of text are all in class
LastAll(text, n, class) == \A j \in (Len(text) - n + 1)..Len(text) : text[j] \in class

\* text ends in '.', '?' or '!' followed by n characters
TermThenN(text, n) == Len(text) > n /\ text[Len(text) - n] \in TermChars

\* properly ended as C7 states it: the followers are non-alphanumeric
ClaimedEnded(text) ==
    \E n \in 0..2 :
        /\ TermThenN(text, n)
        /\ \/ LastAll(text, n, OtherChars \cup TermChars)
           \/ (n >= 1 /\ LastAll(text, n, SpaceChars))

\* properly ended as the regular expressions have it: the followers are any
\* non-whitespace characters, and one final newline is not counted
EndedUpTo(text, m) ==
    \E n \in 0..2 :
        /\ m > n
        /\ text[m - n] \in TermChars
        /\ \/ \A j \in (m - n + 1)..m : text[j] \notin SpaceChars
           \/ (n >= 1 /\ \A j \in (m - n + 1)..m : text[j] \in SpaceChars)
AmendedEnded(text) ==
    \/ EndedUpTo(text, Len(text))
    \/ (Len(text) >= 1 /\ text[Len(text)] = "\n" /\ EndedUpTo(text, Len(text) - 1))

\* C7 as claimed: a previous text that is not properly ended in the claim's
\* sense makes both classifiers say combine, and the rule fires for no other
\* previous text.
C7_ClaimedEndingRule ==
    pc = "classified" =>
        /\ ~ClaimedEnded(PrevText) => (verdict = "merge" /\ d_verdict = "merge")
        /\ (ClaimedEnded(PrevText) /\ CurCount >= 3) => d_verdict = "keep"

\* C7 amended: the previous text counts as properly ended exactly when,
\* one final newline not counted, it ends in '.', '?' or '!' followed by
\* zero, one or two non-whitespace characters, alphanumeric ones included,
\* or by one or two whitespace characters.  Any other previous text makes
\* both classifiers say combine; a properly ended one, such as one ending
\* in ".g" or ".ab", does not make them say so.
C7_EndingRule ==
    pc = "classified" =>
        /\ ~AmendedEnded(PrevText) => (verdict = "merge" /\ d_verdict = "merge")
        /\ (AmendedEnded(PrevText) /\ CurCount >= 3) => d_verdict = "keep"
        /\ (AmendedEnded(PrevText) /\ ~Rule1 /\ ~Rule2 /\ ~Rule3) => verdict = "keep"

\* C7 witness: a previous text ending in a mark and one alphanumeric
\* character, a long current span, and neither classifier saying combine
C7_Witness ==
    /\ pc = "classified"
    /\ Len(PrevText) >= 2
    /\ PrevText[Len(PrevText) - 1] \in TermChars
    /\ PrevText[Len(PrevText)] \in LowerChars \cup UpperChars
    /\ CurCount >= 3
    /\ verdict = "keep"
    /\ d_verdict = "keep"

(***************************************************************************)
(* Scenarios of Document construction.                                     *)
(***************************************************************************)
\* candidate j of the parser, 1-based: its token count and its text
CandCount(j) == sents[j][2] - sents[j][1]
CandText(j) == SpanText(doc, sents[j][1], sents[j][2])

\* the span the merge loop of generate_sentences touched last
LastSpan == sen_offsets[Len(sen_offsets)]

\* the merge loop of generate_sentences has just processed candidate i, whose
\* predecessor has fewer than 3 tokens and begins with an uppercase character
C11_Case ==
    /\ pc = "gen_merge"
    /\ i >= 2
    /\ CandCount(i - 1) < 3
    /\ CandText(i - 1)[1] \in UpperChars

\* C11 as claimed: a candidate whose predecessor is short and capitalized is
\* folded into that predecessor.
C11_FoldedIntoShortCapitalized ==
    C11_Case =>
        /\ d_verdict = "merge"
        /\ LastSpan[1] <= sents[i - 1][1]
        /\ LastSpan[2] = sents[i][2]

\* C11 amended: a candidate whose predecessor is short and capitalized is
\* folded into it exactly when the candidate has fewer than 3 tokens or the
\* predecessor's text lacks ending punctuation; otherwise it is kept as a
\* span of its own.
C11_FoldedOnlyIfShortOrUnended ==
    C11_Case =>
        IF CandCount(i) < 3 \/ ~AmendedEnded(CandText(i - 1))
        THEN /\ d_verdict = "merge"
             /\ LastSpan[1] <= sents[i - 1][1]
             /\ LastSpan[2] = sents[i][2]
        ELSE /\ d_verdict = "keep"
             /\ LastSpan = sents[i]

\* C11 witness: "A." then "A a." -- the second candidate is kept apart
C11_Witness ==
    /\ C11_Case
    /\ CandText(i - 1) = <<"A", ".">>
    /\ CandText(i) = <<"A", " ", "a", ".">>
    /\ d_verdict = "keep"
    /\ LastSpan = sents[i]

\* three candidates, each ending in '.', '?' or '!', the middle one with
\* fewer than 7 tokens and a ')' in its text, the third a sentence of at
\* least 3 tokens
C12_Case ==
    /\ Len(sents) = 3
    /\ \A j \in 1..3 : CandText(j)[Len(CandText(j))] \in TermChars
    /\ CandCount(2) < 7
    /\ \E j \in 1..Len(CandText(2)) : CandText(2)[j] = ")"
    /\ CandCount(3) >= 3

\* C12 as claimed: the short parenthetical is folded into its predecessor
\* and the document ends with exactly 2 final Sentences.
C12_ParentheticalFolded ==
    (pc = "gen_done" /\ C12_Case) =>
        /\ sen_offsets = <<<<0, sents[2][2]>>, sents[3]>>
        /\ Len(sentences) = 2

\* C12 amended: the parenthetical is folded into its predecessor, and the
\* document ends with 2 final Sentences, exactly when it has fewer than 3
\* tokens; a parenthetical of 3 to 6 tokens is kept and the document ends
\* with 3 final Sentences.
C12_ParentheticalFoldedOnlyIfShort ==
    (pc = "gen_done" /\ C12_Case) =>
        IF CandCount(2) < 3
        THEN /\ sen_offsets = <<<<0, sents[2][2]>>, sents[3]>>
             /\ Len(sentences) = 2
        ELSE /\ sen_offsets = sents
             /\ Len(sentences) = 3

\* C12 witness: a parenthetical of 4 tokens, and 3 final Sentences
C12_Witness ==
    /\ pc = "gen_done"
    /\ C12_Case
    /\ CandCount(2) = 4
    /\ Len(sentences) = 3

(***************************************************************************)
(* C13: when the candidate spans are not sorted, contain a span without    *)
(* tokens, leave a gap or overlap, or do not start at token 0, extraction  *)
(* fails with MalformedParseError: sentence_segmenter returns no offset    *)
(* list, the constructor produces no Sentence sequence, and the run does   *)
(* not end in any other exception (the code raises IndexError at most).    *)
(***************************************************************************)
C13_MalformedRejected ==
    ~WellFormed(sents) =>
        pc \notin {"seg_done", "starts_set", "gen_done", "seg_raised", "gen_raised"}

(***************************************************************************)
(* C14: in Document.generate_sentences every candidate after the first is  *)
(* classified against the last accumulated span, not against the raw       *)
(* preceding candidate: the merge decisions and the span list are those    *)
(* obtained by calling the classifier with previous = the accumulator's    *)
(* last span.                                                              *)
(***************************************************************************)
\* the span list after n candidates when the classifier is given the
\* accumulator's last span as previous
RECURSIVE AccFold(_)
AccFold(n) ==
    IF n = 0 THEN <<>>
    ELSE IF n = 1 THEN <<sents[1]>>
    ELSE LET acc == AccFold(n - 1)
             last == acc[Len(acc)]
             previous == Span(doc, last[1], last[2])
             current == Span(doc, sents[n][1], sents[n][2])
         IN IF Document_combine_with_previous(previous, current)
            THEN [acc EXCEPT ![Len(acc)] = <<last[1], sents[n][2]>>]
            ELSE Append(acc, sents[n])

\* the decision on candidate n (n >= 2) under that reading
AccDecision(n) ==
    LET acc == AccFold(n - 1)
        last == acc[Len(acc)]
    IN Document_combine_with_previous(Span(doc, last[1], last[2]),
                                      Span(doc, sents[n][1], sents[n][2]))

C14_ClassifiedAgainstAccumulator ==
    pc \in {"gen_merge", "gen_reparse", "gen_done"} =>
        /\ sen_offsets = AccFold(i)
        /\ (pc = "gen_merge" /\ i >= 2) => d_verdict = Recorded(AccDecision(i))

(***************************************************************************)
(* C15: set_sentence_starts(doc) flags every token except the last one     *)
(* True if its index is the start of a span returned by                    *)
(* sentence_segmenter(doc) and clears it to unset otherwise; the flag of   *)
(* the last token is left as it was, so a returned final span made of the  *)
(* last token alone is not marked by this step.                            *)
(***************************************************************************)
ReturnedStarts == { sen_offsets[j][1] : j \in 1..Len(sen_offsets) }

====
